---- MODULE Spec2Model ----
(***************************************************************************)
(* Model of the shared mapping utilities of audio-reactive-visuals         *)
(* (mappings/utils.js): the frame resolver getFrameIndex / getFrameAtTime, *)
(* the feature smoothers createSmoother and createObjectSmoother and the   *)
(* helpers map, clamp, power and getDominantPitch; and of the sketches     *)
(* that use them: loadAnalysis and the render loop.                        *)
(*                                                                         *)
(* JavaScript numbers are modelled as exact rationals [n, d] in lowest     *)
(* terms with d > 0, extended with the three values a division by zero     *)
(* produces: +Infinity = 1/0, -Infinity = -1/0 and NaN = 0/0.  Rounding of *)
(* IEEE doubles is not modelled.                                           *)
(***************************************************************************)
EXTENDS Integers, Sequences, FiniteSets, TLC

VARIABLES
    frames,     \* the dataset's frame array handed to the resolver
    qtime,      \* `time` argument of the running / last getFrameAtTime call
    low,        \* getFrameIndex: let low
    high,       \* getFrameIndex: let high
    pc,         \* position of the resolver call: "idle", "search", "done"
    result,     \* value returned by the last getFrameAtTime call
    sFactor,    \* createSmoother: the closed-over `factor`
    sValue,     \* createSmoother: the closed-over `value`
    sTarget,    \* argument of the last smooth(target) call
    sRet,       \* value returned by the last smooth(target) call
    sCalls,     \* number of smooth calls made on this smoother
    oFactors,   \* createObjectSmoother: the `factors` argument
    oSmoothers, \* createObjectSmoother: `smoothers`, key -> closure state
    oArg,       \* argument of the last smooth(obj) call
    oResult,    \* object returned by the last smooth(obj) call
    oHist,      \* per key, the values supplied for it so far
    oSeenWith,  \* per key, factors[key] as it was when the key was first seen
    oCalls,     \* number of smooth(obj) calls made
    fName,      \* the helper applied last: "map", "power"
    fArgs,      \* its arguments
    fOut,       \* its return value
    sketch,     \* which render function runs: its guard structure
    body,       \* what the fetch of the analysis artifact will deliver
    loadPc,     \* position of loadAnalysis
    analysisData,   \* the sketch's `analysisData`
    loadingDisplay, \* loadingEl.style.display
    loadingText,    \* loadingEl.textContent
    smValue,    \* per smoother of the sketch, its closed-over `value`
    smCalls,    \* per smoother, the calls made on it by the last tick
    tickPath,   \* the path the last tick took through render
    tickFrame,  \* `frame` of the last tick (NoResult when it was not resolved)
    ticks,      \* number of render calls so far
    rafCount,   \* requestAnimationFrame calls made by the last tick
    snapReads,  \* snapshot fields read by the last tick
    hHeap,      \* the arrays in memory: address -> elements
    hFrames,    \* the dataset's frames, bands and chroma held by address
    hSnap,      \* the snapshot the last getFrameAtTime call returned
    hLoaded,    \* the frames as they were loaded: bands and chroma by value
    hWrites,    \* writes the consumer has made to snapshots
    currentState,       \* state-machine sketch: the visual state
    lastEnergy,         \* rms handed to the last analyzeAndTransition call
    energyAccumulator,  \* the energy momentum
    energyHistory,      \* the last rms values, oldest first
    onsetHistory,       \* the last onset flags (0 or 1), oldest first
    numParticles,       \* particles.length
    stateBefore,        \* currentState when the last tick began
    deadFound,          \* particles the last tick found dead
    mTicks,             \* ticks with a frame so far
    beats,              \* trail-echo sketch: analysisData.beats
    bTime,              \* audio.currentTime at the last tick
    anticipationGlow,   \* the glow around the centre
    lastBeatIndex,      \* index of the last beat that flashed, -1 at first
    flashed,            \* indexes of the beats whose flash branch has run
    bTicks,             \* ticks with a frame so far
    particles,          \* particle-physics sketch: the pool, oldest first
    spawnsLeft,         \* spawnParticle calls the running tick has yet to make
    renderPc,           \* where render is: "idle", "spawning"
    objCount,           \* Particle objects constructed so far
    pTicks              \* ticks with a frame begun so far

resolverVars == <<frames, qtime, low, high, pc, result>>

smootherVars == <<sFactor, sValue, sTarget, sRet, sCalls>>

objectVars == <<oFactors, oSmoothers, oArg, oResult, oHist, oSeenWith, oCalls>>

mathVars == <<fName, fArgs, fOut>>

sketchVars == <<sketch, body, loadPc, analysisData, loadingDisplay, loadingText,
                smValue, smCalls, tickPath, tickFrame, ticks, rafCount,
                snapReads>>

heapVars == <<hHeap, hFrames, hSnap, hLoaded, hWrites>>

machineVars == <<currentState, lastEnergy, energyAccumulator, energyHistory,
                 onsetHistory, numParticles, stateBefore, deadFound, mTicks>>

beatVars == <<beats, bTime, anticipationGlow, lastBeatIndex, flashed, bTicks>>

poolVars == <<particles, spawnsLeft, renderPc, objCount, pTicks>>

vars == <<resolverVars, smootherVars, objectVars, mathVars, sketchVars,
          heapVars,
          machineVars,
          beatVars,
          poolVars>>

(***************************************************************************)
(* Bounds of the model.                                                    *)
(***************************************************************************)
MaxFrames == 3      \* longest frame array
MaxTime == 2        \* frame times are the integers 0 .. MaxTime
MaxVal == 1         \* frame feature seeds are 0 .. MaxVal
NumBands == 2       \* length of every bands vector
NumChroma == 2      \* length of every chroma vector
MaxCalls == 4       \* smooth calls made on one smoother
MaxObjCalls == 3    \* smooth(obj) calls made on one aggregate smoother
MaxPow == 3         \* largest exponent handed to power
MaxTicks == 4       \* render calls of one sketch
MaxChroma == 4      \* longest chroma vector handed to getDominantPitch
MaxWrites == 2      \* writes a consumer makes to the snapshots it gets
MaxMachineTicks == 10   \* ticks of the state-machine sketch
MaxBeatTicks == 4       \* ticks of the trail-echo sketch
MaxPoolTicks == 2       \* ticks of the particle-physics sketch
PoolCapacity == 4       \* stands for MAX_PARTICLES = 1500 of particle-physics

(***************************************************************************)
(* Numbers.                                                                *)
(***************************************************************************)
Abs(x) == IF x < 0 THEN -x ELSE x

Sign(x) == IF x > 0 THEN 1 ELSE IF x < 0 THEN -1 ELSE 0

gcd[a \in Nat, b \in Nat] == IF b = 0 THEN a ELSE gcd[b, a % b]

GCD(a, b) == gcd[a, b]

\* the number n/d; d = 0 gives +Infinity, -Infinity or NaN by the sign of n
Rat(n, d) ==
    IF d = 0 THEN [n |-> Sign(n), d |-> 0]
    ELSE LET g == GCD(Abs(n), Abs(d))
             s == Sign(d)
         IN  [n |-> (s * n) \div g, d |-> (s * d) \div g]

Num(k) == [n |-> k, d |-> 1]

NaN == [n |-> 0, d |-> 0]

IsNaN(a) == a.d = 0 /\ a.n = 0

IsFinite(a) == a.d > 0

\* a + b
RAdd(a, b) ==
    IF a.d = 0 /\ b.d = 0
    THEN (IF a.n = b.n THEN a ELSE NaN)
    ELSE Rat(a.n * b.d + b.n * a.d, a.d * b.d)

RNeg(a) == [n |-> -a.n, d |-> a.d]

\* a - b
RSub(a, b) == RAdd(a, RNeg(b))

\* a * b
RMul(a, b) == Rat(a.n * b.n, a.d * b.d)

\* 1 / b
RInv(b) ==
    IF b.d = 0 THEN (IF b.n = 0 THEN NaN ELSE Num(0))
    ELSE IF b.n = 0 THEN [n |-> 1, d |-> 0]
    ELSE IF b.n > 0 THEN [n |-> b.d, d |-> b.n]
    ELSE [n |-> -b.d, d |-> -b.n]

\* a / b
RDiv(a, b) == RMul(a, RInv(b))

\* a <= b
RLe(a, b) ==
    /\ ~IsNaN(a)
    /\ ~IsNaN(b)
    /\ IF a.d = 0 /\ b.d = 0 THEN a.n <= b.n
       ELSE a.n * b.d <= b.n * a.d

\* a === b
REq(a, b) == ~IsNaN(a) /\ ~IsNaN(b) /\ a = b

\* a < b
RLt(a, b) == RLe(a, b) /\ ~REq(a, b)

\* |a|
RAbs(a) == [n |-> Abs(a.n), d |-> a.d]

(***************************************************************************)
(* JavaScript values other than numbers.                                   *)
(***************************************************************************)
Null == [kind |-> "null"]

Undefined == [kind |-> "undefined"]

\* the outcome of a call that ended in a TypeError
Threw == [kind |-> "throw"]

\* a call that returned the object f
Obj(f) == [kind |-> "object", val |-> f]

\* no call has returned yet
NoResult == [kind |-> "none"]

(***************************************************************************)
(* The analysis dataset: frames of the shape the analysis JSON holds.      *)
(* Every feature is a different function of the seed v, so that a snapshot *)
(* built from the wrong field or the wrong frame differs.                  *)
(***************************************************************************)
MkFrame(t, v) ==
    [ time        |-> Num(t),
      rms         |-> Num(v),
      centroid    |-> Num(MaxVal - v),
      centroid_hz |-> Num(100 * v + 20),
      contrast    |-> Rat(v, 2),
      onset       |-> Num(2 * v),
      harmonic    |-> Num(v + 1),
      percussive  |-> Num(v * v + 3),
      bands       |-> [i \in 1..NumBands |-> Num(v + i)],
      chroma      |-> [i \in 1..NumChroma |-> Rat(v * i, 4)] ]

FrameSet == {MkFrame(t, v) : t \in 0..MaxTime, v \in 0..MaxVal}

\* sorted ascending by time; equal adjacent times are allowed
IsSorted(s) == \A i \in 1..(Len(s) - 1) : RLe(s[i].time, s[i + 1].time)

FrameArrays ==
    {s \in UNION {[1..k -> FrameSet] : k \in 0..MaxFrames} : IsSorted(s)}

\* what a caller can pass as `frames`: null / undefined, or an array
Datasets ==
    {[present |-> FALSE, items |-> <<>>]}
        \cup {[present |-> TRUE, items |-> s] : s \in FrameArrays}

\* query times: every half second from -1 to MaxTime + 1
QueryTimes == {Rat(k, 2) : k \in (-2)..(2 * MaxTime + 2)}

(***************************************************************************)
(* mappings/utils.js: lerp                                                 *)
(***************************************************************************)
\* a bug: the step is taken away from the target
lerp_Reversed(current, target, factor) ==
    RSub(current, RMul(RSub(target, current), factor))

\* a bug: the current value is not subtracted from the target
lerp_NoSub(current, target, factor) == RAdd(current, RMul(target, factor))

lerp(current, target, factor) ==
    RAdd(current, RMul(RSub(target, current), factor))

(***************************************************************************)
(* mappings/utils.js: getFrameIndex                                        *)
(***************************************************************************)
\* a bug: the comparison is strict, so a frame at exactly `time` is skipped
searchStep_Strict(items, time, lo, hi) ==
    LET mid == (lo + hi + 1) \div 2
    IN  IF RLt(items[mid + 1].time, time) THEN <<mid, hi>> ELSE <<lo, mid - 1>>

\* a bug: the lower-middle / low = mid + 1 variant of the search, which
\* finds the first frame after `time` instead of the last one up to it
searchStep_Upper(items, time, lo, hi) ==
    LET mid == (lo + hi) \div 2
    IN  IF RLe(items[mid + 1].time, time) THEN <<mid + 1, hi>> ELSE <<lo, mid>>

\* one iteration of the while loop: the new <<low, high>>
searchStep(items, time, lo, hi) ==
    LET mid == (lo + hi + 1) \div 2
    IN  IF RLe(items[mid + 1].time, time) THEN <<mid, hi>> ELSE <<lo, mid - 1>>

\* the while loop, run to its end: the final low
RECURSIVE searchLoop(_, _, _, _)
searchLoop(items, time, lo, hi) ==
    IF lo < hi
    THEN LET s == searchStep(items, time, lo, hi)
         IN  searchLoop(items, time, s[1], s[2])
    ELSE lo

getFrameIndex(fr, time) ==
    IF ~fr.present \/ Len(fr.items) = 0 THEN 0
    ELSE searchLoop(fr.items, time, 0, Len(fr.items) - 1)

(***************************************************************************)
(* mappings/utils.js: getFrameAtTime                                       *)
(***************************************************************************)
\* a bug: only a missing array is caught, an empty one is not
isEmpty_NoLength(fr) == ~fr.present

\* !frames || frames.length === 0
isEmpty(fr) == ~fr.present \/ Len(fr.items) = 0

\* a bug: the last frame is not returned as-is
returnsAsIs_NoLast(items, time, idx) == REq(items[idx + 1].time, time)

\* idx >= frames.length - 1 || frame.time === time
returnsAsIs(items, time, idx) ==
    idx >= Len(items) - 1 \/ REq(items[idx + 1].time, time)

\* a bug: the located frame's time is not subtracted in the denominator
fraction_NoSub(frame, nextFrame, time) ==
    RDiv(RSub(time, frame.time), nextFrame.time)

\* const t = (time - frame.time) / (nextFrame.time - frame.time)
fraction(frame, nextFrame, time) ==
    RDiv(RSub(time, frame.time), RSub(nextFrame.time, frame.time))

\* the object literal returned by the interpolation branch
interpolate(frame, nextFrame, time) ==
    LET t == fraction(frame, nextFrame, time)
    IN  [ time        |-> time,
          rms         |-> lerp(frame.rms, nextFrame.rms, t),
          centroid    |-> lerp(frame.centroid, nextFrame.centroid, t),
          centroid_hz |-> lerp(frame.centroid_hz, nextFrame.centroid_hz, t),
          contrast    |-> lerp(frame.contrast, nextFrame.contrast, t),
          onset       |-> lerp(frame.onset, nextFrame.onset, t),
          harmonic    |-> lerp(frame.harmonic, nextFrame.harmonic, t),
          percussive  |-> lerp(frame.percussive, nextFrame.percussive, t),
          bands       |-> [i \in DOMAIN frame.bands |->
                              lerp(frame.bands[i], nextFrame.bands[i], t)],
          chroma      |-> [i \in DOMAIN frame.chroma |->
                              lerp(frame.chroma[i], nextFrame.chroma[i], t)] ]

\* getFrameAtTime from `const frame = frames[idx]` on.  Reading .time of a
\* frame that is not in the array (frames[idx] is undefined) is a TypeError.
snapshot(items, time, idx) ==
    IF (idx + 1) \notin DOMAIN items THEN Threw
    ELSE IF returnsAsIs(items, time, idx) THEN Obj(items[idx + 1])
    ELSE IF (idx + 2) \notin DOMAIN items THEN Threw
    ELSE Obj(interpolate(items[idx + 1], items[idx + 2], time))

getFrameAtTime(fr, time) ==
    IF isEmpty(fr) THEN Null
    ELSE snapshot(fr.items, time, getFrameIndex(fr, time))

(***************************************************************************)
(* getFrameAtTime on objects that hold their arrays by reference.  A frame *)
(* here has an address in its bands and chroma fields; the heap maps an    *)
(* address to the array's elements.                                        *)
(***************************************************************************)
\* the frame with its arrays read out of the heap
Deref(heap, frame) ==
    [frame EXCEPT !.bands = heap[frame.bands], !.chroma = heap[frame.chroma]]

\* { ...frame }: a new object whose fields are the frame's fields; an array
\* field is copied as the reference it is
spread(frame) == frame

\* getFrameAtTime(frames, time) on the heap: the snapshot returned and the
\* heap after the call.  Array.map allocates: the arrays of an interpolated
\* snapshot are new, at the two addresses after the dataset's.
resolveOnHeap(heap, items, time) ==
    LET vals == [i \in DOMAIN items |-> Deref(heap, items[i])]
        fr == [present |-> TRUE, items |-> vals]
        idx == getFrameIndex(fr, time)
        newBands == 2 * Len(items) + 1
        newChroma == 2 * Len(items) + 2
    IN  IF isEmpty(fr) THEN [snap |-> Null, heap |-> heap]
        ELSE IF returnsAsIs(vals, time, idx)
             THEN [snap |-> Obj(spread(items[idx + 1])), heap |-> heap]
        ELSE LET v == interpolate(vals[idx + 1], vals[idx + 2], time)
             IN  [snap |-> Obj([v EXCEPT !.bands = newBands,
                                         !.chroma = newChroma]),
                  heap |-> [heap EXCEPT ![newBands] = v.bands,
                                        ![newChroma] = v.chroma]]

\* the datasets of the heap model: one or two frames
HeapDatasets == {s \in FrameArrays : Len(s) \in 1..2 /\ s[1] = MkFrame(0, 0)}

\* the value a consumer writes into a snapshot
Written == Num(7)

(***************************************************************************)
(* visuals/state-machine/sketch.js: the state machine and its particles.   *)
(* The accumulator is multiplied by 19/20 on every tick, so its exact      *)
(* value needs twenty times the denominator after each tick; it is stored  *)
(* here with three decimals, rounded down, as a double stores it rounded   *)
(* to 53 bits.                                                             *)
(***************************************************************************)
STATES == {"AMBIENT", "BUILDING", "INTENSE", "BREAKDOWN"}

ENERGY_HISTORY_SIZE == 60

ONSET_HISTORY_SIZE == 30

MAX_PARTICLES == 300

\* a bug: INTENSE is given more particles than any state should have
getParticleCountForState_Dense(state) ==
    CASE state = "AMBIENT" -> 30
      [] state = "BUILDING" -> 80
      [] state = "INTENSE" -> 400
      [] state = "BREAKDOWN" -> 10
      [] OTHER -> 50

getParticleCountForState(state) ==
    CASE state = "AMBIENT" -> 30
      [] state = "BUILDING" -> 80
      [] state = "INTENSE" -> 200
      [] state = "BREAKDOWN" -> 10
      [] OTHER -> 50

\* a number as a variable of the sketch holds it: three decimals, rounded down
stored(x) == Rat((x.n * 1000) \div x.d, 1000)

\* history.push(v); if (history.length > size) history.shift()
pushHistory(history, v, size) ==
    LET h == Append(history, v)
    IN  IF Len(h) > size THEN Tail(h) ELSE h

\* array.reduce((a, b) => a + b, 0)
RECURSIVE sum(_)
sum(array) == IF array = <<>> THEN Num(0) ELSE RAdd(Head(array), sum(Tail(array)))

\* array.slice(-k)
lastOf(array, k) ==
    IF Len(array) <= k THEN array ELSE SubSeq(array, Len(array) - k + 1, Len(array))

\* a bug: a sudden drop leads to BREAKDOWN from every state
nextState_DropAnywhere(state, suddenDrop, acc, onsetDensity, energyTrend) ==
    IF suddenDrop THEN "BREAKDOWN"
    ELSE IF state = "BREAKDOWN" /\ RLt(Rat(4, 10), acc) THEN "BUILDING"
    ELSE IF RLt(acc, Rat(2, 10)) /\ RLt(onsetDensity, Rat(2, 10)) THEN "AMBIENT"
    ELSE IF RLt(Rat(6, 10), acc) /\ RLt(Rat(4, 10), onsetDensity) THEN "INTENSE"
    ELSE IF RLt(Rat(3, 10), acc) \/ RLt(Rat(5, 100), energyTrend)
         THEN IF state = "AMBIENT" THEN "BUILDING"
              ELSE IF state = "BUILDING" /\ RLt(Rat(5, 10), acc) THEN "INTENSE"
              ELSE state
    ELSE IF RLt(energyTrend, Rat(-5, 100)) /\ state = "INTENSE" THEN "BUILDING"
    ELSE state

\* a bug: rising energy takes AMBIENT to INTENSE at once
nextState_SkipsBuilding(state, suddenDrop, acc, onsetDensity, energyTrend) ==
    IF suddenDrop /\ state = "INTENSE" THEN "BREAKDOWN"
    ELSE IF state = "BREAKDOWN" /\ RLt(Rat(4, 10), acc) THEN "BUILDING"
    ELSE IF RLt(acc, Rat(2, 10)) /\ RLt(onsetDensity, Rat(2, 10)) THEN "AMBIENT"
    ELSE IF RLt(Rat(6, 10), acc) /\ RLt(Rat(4, 10), onsetDensity) THEN "INTENSE"
    ELSE IF RLt(Rat(3, 10), acc) \/ RLt(Rat(5, 100), energyTrend)
         THEN IF state = "AMBIENT" THEN "INTENSE"
              ELSE IF state = "BUILDING" /\ RLt(Rat(5, 10), acc) THEN "INTENSE"
              ELSE state
    ELSE IF RLt(energyTrend, Rat(-5, 100)) /\ state = "INTENSE" THEN "BUILDING"
    ELSE state

\* the state transition logic of analyzeAndTransition: newState
nextState(state, suddenDrop, acc, onsetDensity, energyTrend) ==
    IF suddenDrop /\ state = "INTENSE" THEN "BREAKDOWN"
    ELSE IF state = "BREAKDOWN" /\ RLt(Rat(4, 10), acc) THEN "BUILDING"
    ELSE IF RLt(acc, Rat(2, 10)) /\ RLt(onsetDensity, Rat(2, 10)) THEN "AMBIENT"
    ELSE IF RLt(Rat(6, 10), acc) /\ RLt(Rat(4, 10), onsetDensity) THEN "INTENSE"
    ELSE IF RLt(Rat(3, 10), acc) \/ RLt(Rat(5, 100), energyTrend)
         THEN IF state = "AMBIENT" THEN "BUILDING"
              ELSE IF state = "BUILDING" /\ RLt(Rat(5, 10), acc) THEN "INTENSE"
              ELSE state
    ELSE IF RLt(energyTrend, Rat(-5, 100)) /\ state = "INTENSE" THEN "BUILDING"
    ELSE state

\* analyzeAndTransition(rms, onset, bass) on the sketch's variables m
analyzeAndTransition(m, rms, onset) ==
    LET eh == pushHistory(m.energyHistory, rms, ENERGY_HISTORY_SIZE)
        oh == pushHistory(m.onsetHistory,
                          IF RLt(Rat(5, 10), onset) THEN Num(1) ELSE Num(0),
                          ONSET_HISTORY_SIZE)
        avgEnergy == RDiv(sum(eh), Num(Len(eh)))
        recentEnergy == RDiv(sum(lastOf(eh, 10)), Num(10))
        energyTrend == RSub(recentEnergy, avgEnergy)
        onsetDensity == RDiv(sum(oh), Num(Len(oh)))
        suddenDrop == RLt(Rat(5, 10), m.lastEnergy) /\ RLt(rms, Rat(15, 100))
        acc == stored(lerp(m.energyAccumulator,
                           RAdd(rms, RMul(onsetDensity, Rat(5, 10))),
                           Rat(5, 100)))
        newState == nextState(m.currentState, suddenDrop, acc, onsetDensity,
                              energyTrend)
        targetCount == getParticleCountForState(newState)
    IN  [ currentState |-> newState,
          lastEnergy |-> rms,
          energyAccumulator |-> acc,
          energyHistory |-> eh,
          onsetHistory |-> oh,
          numParticles |->
              IF newState # m.currentState /\ m.numParticles < targetCount
              THEN targetCount
              ELSE m.numParticles ]

\* render's particle loop, from the last particle to the first: a dead
\* particle is spliced out while the array is longer than the target and
\* reset otherwise
afterParticleLoop(len, dead, targetParticleCount) ==
    IF len > targetParticleCount
    THEN IF dead < len - targetParticleCount THEN len - dead
         ELSE targetParticleCount
    ELSE len

\* the smoothed rms and onset of a tick
MachineInputs ==
    { [rms |-> Num(0), onset |-> Num(0)], [rms |-> Num(1), onset |-> Num(1)] }

(***************************************************************************)
(* mappings/utils.js: map, clamp, power                                    *)
(***************************************************************************)
\* Math.max(a, b)
RMax(a, b) == IF IsNaN(a) \/ IsNaN(b) THEN NaN ELSE IF RLe(a, b) THEN b ELSE a

\* Math.min(a, b)
RMin(a, b) == IF IsNaN(a) \/ IsNaN(b) THEN NaN ELSE IF RLe(a, b) THEN a ELSE b

\* Math.pow(b, k) for an integer k
RECURSIVE RPow(_, _)
RPow(b, k) ==
    IF k = 0 THEN Num(1)
    ELSE IF k < 0 THEN RInv(RPow(b, -k))
    ELSE RMul(b, RPow(b, k - 1))

\* Math.min(Math.max(value, min), max)
clamp(value, min, max) == RMin(RMax(value, min), max)

\* a bug: the position in the input range is clamped to [0, 1]
map_Clamped(value, inMin, inMax, outMin, outMax) ==
    RAdd(RMul(clamp(RDiv(RSub(value, inMin), RSub(inMax, inMin)),
                    Num(0), Num(1)),
              RSub(outMax, outMin)),
         outMin)

\* ((value - inMin) / (inMax - inMin)) * (outMax - outMin) + outMin
map(value, inMin, inMax, outMin, outMax) ==
    RAdd(RMul(RDiv(RSub(value, inMin), RSub(inMax, inMin)),
              RSub(outMax, outMin)),
         outMin)

\* a bug: the value is raised to the power without being clamped
power_NoClamp(value, p) == RPow(value, p.n)

\* Math.pow(clamp(value, 0, 1), power), for a whole-number exponent p
power(value, p) == RPow(clamp(value, Num(0), Num(1)), p.n)

\* the values handed to map and power
MathValues == {Num(-1), Num(0), Rat(1, 2), Num(1), Rat(3, 2), Num(5), Num(12)}

\* the ends of map's input range
InEnds == {Num(0), Num(1), Num(10)}

\* the ends of map's output range
OutEnds == {Num(0), Num(100), Num(200)}

\* the exponents handed to power
Exponents == {Num(k) : k \in (-1)..MaxPow}

(***************************************************************************)
(* mappings/utils.js: createSmoother                                       *)
(***************************************************************************)
\* factor = 0.1 when the argument is left out
createSmoother(factor) == IF factor = Undefined THEN Rat(1, 10) ELSE factor

\* a bug: the state starts at 0 instead of null, so the first call ramps
smooth_ZeroStart(value, target, factor) ==
    IF value = Null THEN lerp(Num(0), target, factor)
    ELSE lerp(value, target, factor)

\* a bug: the state is tested for falsiness, so a stored 0 counts as unset
smooth_Falsy(value, target, factor) ==
    IF value = Null \/ value = Num(0) THEN target
    ELSE lerp(value, target, factor)

\* a bug: lerp is called with its first two arguments exchanged
smooth_SwappedArgs(value, target, factor) ==
    IF value = Null THEN target
    ELSE lerp(target, value, factor)

\* the new `value` (also the return value) of smooth(target)
smooth(value, target, factor) ==
    IF value = Null THEN target
    ELSE lerp(value, target, factor)

(***************************************************************************)
(* mappings/utils.js: createObjectSmoother                                 *)
(*                                                                         *)
(* A JavaScript object with numeric or closure properties is a function    *)
(* from its own property names.  `smoothers` maps a key to the closure of  *)
(* the smoother created for it: its `factor` and its `value`.              *)
(***************************************************************************)
EmptyObject == [k \in {} |-> Null]

\* obj[key] = v
Put(obj, key, v) == [x \in (DOMAIN obj) \cup {key} |-> IF x = key THEN v ELSE obj[x]]

\* const defaultFactor = 0.15
defaultFactor == Rat(3, 20)

\* the truthiness of a number: 0 and NaN are falsy
Truthy(x) == ~(x = Num(0) \/ IsNaN(x))

\* factors[key] || defaultFactor
chooseFactor(factors, key) ==
    IF key \in DOMAIN factors /\ Truthy(factors[key]) THEN factors[key]
    ELSE defaultFactor

\* a bug: every key is kept under one property of `smoothers`
slot_Shared(key) == "shared"

\* the property of `smoothers` that holds the smoother of `key`
slot(key) == key

\* for (const key in obj) { ... }: `todo` are the keys still to visit and
\* st = [smoothers, result] the two objects the loop writes
RECURSIVE forIn(_, _, _, _)
forIn(todo, obj, factors, st) ==
    IF todo = {} THEN st
    ELSE LET key == CHOOSE k \in todo : TRUE
             factor == chooseFactor(factors, key)
             sm == IF slot(key) \in DOMAIN st.smoothers THEN st.smoothers
                   ELSE Put(st.smoothers, slot(key),
                            [factor |-> createSmoother(factor), value |-> Null])
             cell == sm[slot(key)]
             v == smooth(cell.value, obj[key], cell.factor)
         IN  forIn(todo \ {key}, obj, factors,
                   [smoothers |-> Put(sm, slot(key),
                                      [factor |-> cell.factor, value |-> v]),
                    result |-> Put(st.result, key, v)])

\* smooth(obj) of the aggregate smoother: the new `smoothers` and the result
smoothObject(smoothers, factors, obj) ==
    forIn(DOMAIN obj, obj, factors,
          [smoothers |-> smoothers, result |-> EmptyObject])

\* the keys of the objects handed to the aggregate smoother
Keys == {"rms", "onset"}

\* the values of those keys
ObjTargets == {Num(0), Num(1)}

\* the objects handed to smooth(obj): any subset of the keys
Objects == UNION {[S -> ObjTargets] : S \in SUBSET Keys}

\* the overrides a factors mapping holds
OverrideFactors == {Num(0), Rat(1, 2)}

\* the factors mappings: an override for any subset of the keys
FactorMaps == UNION {[S -> OverrideFactors] : S \in SUBSET Keys}

\* the factors a smoother is created with: left out, 0, 1/2 and 1
FactorArgs == {Undefined, Num(0), Rat(1, 2), Num(1)}

\* the targets fed to a smoother
Targets == {Num(-1), Num(0), Num(1), Num(2)}

(***************************************************************************)
(* mappings/utils.js: getDominantPitch                                     *)
(***************************************************************************)
\* the loop `for (let i = 1; i < chroma.length; i++)`, i counted from 0
\* a bug: an entry equal to the maximum so far replaces it
exceeds_OrEqual(value, maxVal) == RLe(maxVal, value)

\* chroma[i] > maxVal
exceeds(value, maxVal) == RLt(maxVal, value)

RECURSIVE pitchLoop(_, _, _, _)
pitchLoop(chroma, i, maxIdx, maxVal) ==
    IF ~(i < Len(chroma)) THEN maxIdx
    ELSE IF exceeds(chroma[i + 1], maxVal)
         THEN pitchLoop(chroma, i + 1, i, chroma[i + 1])
         ELSE pitchLoop(chroma, i + 1, maxIdx, maxVal)

getDominantPitch(chroma) == pitchLoop(chroma, 1, 0, chroma[1])

\* the entries of a chroma vector
ChromaValues == {Num(0), Rat(1, 2), Num(1)}

\* the chroma vectors handed to getDominantPitch: at least one entry
ChromaVectors == UNION {[1..k -> ChromaValues] : k \in 1..MaxChroma}

(***************************************************************************)
(* visuals/trail-echo/sketch.js: beat anticipation.                        *)
(***************************************************************************)
\* beats[i] > currentTime
isAhead(beat, currentTime) == RLt(currentTime, beat)

\* the loop of getNextBeat from index i (from 0) on
RECURSIVE beatLoop(_, _, _)
beatLoop(currentTime, bs, i) ==
    IF i >= Len(bs) THEN Null
    ELSE IF isAhead(bs[i + 1], currentTime)
         THEN Obj([time |-> bs[i + 1], index |-> i])
         ELSE beatLoop(currentTime, bs, i + 1)

\* getNextBeat(currentTime, beats); beats is not present when the dataset
\* has no such field
getNextBeat(currentTime, bs) ==
    IF ~bs.present \/ bs.items = <<>> THEN Null
    ELSE beatLoop(currentTime, bs.items, 0)

\* render's BEAT ANTICIPATION block on b = [glow, last, flash]: the glow
\* before the decay, lastBeatIndex, and the index of the beat that flashed
\* on this tick (-1: none)
anticipate(currentTime, bs, b) ==
    LET nextBeat == getNextBeat(currentTime, bs)
    IN  IF nextBeat = Null THEN [b EXCEPT !.flash = -1]
        ELSE LET timeUntilBeat == RSub(nextBeat.val.time, currentTime)
             IN  IF RLt(timeUntilBeat, Rat(3, 10)) /\ RLt(Num(0), timeUntilBeat)
                 THEN [glow |-> map(timeUntilBeat, Rat(3, 10), Num(0), Num(0), Num(1)),
                       last |-> b.last, flash |-> -1]
                 ELSE IF RLe(timeUntilBeat, Num(0)) /\ nextBeat.val.index # b.last
                 THEN [glow |-> Num(1), last |-> nextBeat.val.index,
                       flash |-> nextBeat.val.index]
                 ELSE [b EXCEPT !.flash = -1]

\* analysisData.beats of the datasets tried
BeatLists ==
    {[present |-> FALSE, items |-> <<>>]}
        \cup {[present |-> TRUE, items |-> bs] :
                 bs \in {<<>>, <<Num(1)>>, <<Num(1), Num(2)>>}}

\* audio.currentTime at the ticks
BeatTimes ==
    {Num(0), Rat(4, 5), Rat(9, 10), Num(1), Rat(11, 10), Rat(19, 10), Num(2),
     Rat(5, 2)}

(***************************************************************************)
(* visuals/particle-physics/sketch.js: the particle pool.  A particle is   *)
(* the object it is (obj, numbered by construction) and its life: "full"   *)
(* when just spawned (life = 1.0), "worn" once an update has aged it.      *)
(***************************************************************************)
\* a bug: the pool is allowed one particle more before it recycles
atCapacity_OffByOne(len) == len > PoolCapacity

\* particles.length >= MAX_PARTICLES
atCapacity(len) == len >= PoolCapacity

\* spawnParticle(x, y, vx, vy, hue) on the pool, made = objects constructed
\* so far: at capacity the oldest particle is shifted out, reset and pushed
\* back, otherwise a new Particle is pushed
spawnParticle(pool, made) ==
    IF atCapacity(Len(pool))
    THEN [pool |-> Append(Tail(pool), [Head(pool) EXCEPT !.life = "full"]),
          made |-> made]
    ELSE [pool |-> Append(pool, [obj |-> made + 1, life |-> "full"]),
          made |-> made + 1]

\* render's update loop: every particle is aged, and the particles at the
\* positions in `gone` (dead or off screen) are spliced out
RECURSIVE updateParticles(_, _, _)
updateParticles(pool, gone, i) ==
    IF i > Len(pool) THEN <<>>
    ELSE IF i \in gone THEN updateParticles(pool, gone, i + 1)
    ELSE <<[pool[i] EXCEPT !.life = "worn"]>> \o updateParticles(pool, gone, i + 1)

\* the passes of the continuous spawn loop, `for (i = 0; i < spawnRate; i++)`
\* with spawnRate = BASE_SPAWN_RATE + rms * 3: from 1 (rms = 0) to 4 (rms = 1)
SpawnRates == {1, 4}

\* burstCount = Math.floor(10 + onset * 20) when an onset above 0.6 starts
\* (22 to 30 particles), 0 on a tick without burst
BurstCounts == {0, 22}

\* the positions the update loop can find dead or off screen
Removals(len) == {g \in {{}, {1}, {len}, 1..len} : g \subseteq 1..len}

(***************************************************************************)
(* The sketches.  Two render functions stand for the two guard structures  *)
(* found in the sketches: baseline circle returns early when there is no   *)
(* dataset or no frame, waveform terrain returns early when there is no    *)
(* dataset and smooths inside `if (frame)`.  A smoother is named by the    *)
(* property of `smoothers` that holds it and, for smoothers.bands, its     *)
(* index.                                                                  *)
(***************************************************************************)
Sketches == {"baseline-circle", "waveform-terrain"}

\* one smoother call of render: the smoother called and the snapshot field
\* its argument is read from
SmCall(name, i, field) == [smoother |-> <<name, i>>, field |-> field]

\* baseline circle: the calls of render's data path, in order
baselineCalls ==
    << SmCall("rms", 0, "rms"), SmCall("centroid", 0, "centroid"),
       SmCall("bass", 0, "bands"), SmCall("onset", 0, "onset"),
       SmCall("harmonic", 0, "harmonic"), SmCall("percussive", 0, "percussive"),
       SmCall("dominantPitch", 0, "chroma") >>

\* waveform terrain: frame.bands.map(...) first, then the object literal
terrainCalls ==
    [i \in 1..NumBands |-> SmCall("bands", i - 1, "bands")]
        \o << SmCall("rms", 0, "rms"), SmCall("centroid", 0, "centroid"),
              SmCall("onset", 0, "onset"), SmCall("harmonic", 0, "harmonic"),
              SmCall("percussive", 0, "percussive"), SmCall("bass", 0, "bands"),
              SmCall("contrast", 0, "contrast") >>

\* a bug: the rms smoother is called a second time at the end of the tick
smootherCalls_RmsTwice(sk) ==
    (IF sk = "baseline-circle" THEN baselineCalls ELSE terrainCalls)
        \o << SmCall("rms", 0, "rms") >>

\* the smoother calls render makes on a tick that has a frame
smootherCalls(sk) ==
    IF sk = "baseline-circle" THEN baselineCalls ELSE terrainCalls

\* const smoothers = { ... }: the factor each smoother is created with
smootherFactors(sk) ==
    IF sk = "baseline-circle"
    THEN [id \in {<<"rms", 0>>, <<"centroid", 0>>, <<"bass", 0>>, <<"onset", 0>>,
                  <<"harmonic", 0>>, <<"percussive", 0>>, <<"dominantPitch", 0>>}
            |-> CASE id[1] = "rms" -> Rat(15, 100)
                  [] id[1] = "centroid" -> Rat(1, 10)
                  [] id[1] = "bass" -> Rat(2, 10)
                  [] id[1] = "onset" -> Rat(4, 10)
                  [] id[1] = "harmonic" -> Rat(8, 100)
                  [] id[1] = "percussive" -> Rat(3, 10)
                  [] OTHER -> Rat(5, 100)]
    ELSE [id \in {<<"rms", 0>>, <<"centroid", 0>>, <<"onset", 0>>,
                  <<"harmonic", 0>>, <<"percussive", 0>>, <<"bass", 0>>,
                  <<"contrast", 0>>} \cup {<<"bands", i>> : i \in 0..(NumBands - 1)}
            |-> CASE id[1] = "rms" -> Rat(15, 100)
                  [] id[1] = "centroid" -> Rat(8, 100)
                  [] id[1] = "onset" -> Rat(5, 10)
                  [] id[1] = "harmonic" -> Rat(1, 10)
                  [] id[1] = "percussive" -> Rat(35, 100)
                  [] id[1] = "bass" -> Rat(15, 100)
                  [] id[1] = "contrast" -> Rat(1, 10)
                  [] OTHER -> Rat(2, 10)]

\* the argument of one smoother call, read from the frame
callArgument(frame, call) ==
    CASE call.smoother[1] = "bass" -> frame.bands[2]
      [] call.smoother[1] = "bands" -> frame.bands[call.smoother[2] + 1]
      [] call.smoother[1] = "dominantPitch" -> Num(getDominantPitch(frame.chroma))
      [] OTHER -> frame[call.field]

\* the smoother calls of one tick, made in order on st = [value, calls]
RECURSIVE invoke(_, _, _, _)
invoke(calls, frame, factors, st) ==
    IF calls = <<>> THEN st
    ELSE LET call == Head(calls)
             id == call.smoother
             v == smooth(st.value[id], callArgument(frame, call), factors[id])
         IN  invoke(Tail(calls), frame, factors,
                    [value |-> [st.value EXCEPT ![id] = v],
                     calls |-> [st.calls EXCEPT ![id] = @ + 1]])

\* if (!analysisData)
dataMissing(data) == data = Null

\* a bug: render goes on to read the frame without testing it
hasFrame_Unchecked(frame) == TRUE

\* the test of `if (!frame)` / `if (frame)`
hasFrame(frame) == frame # Null

\* a bug: render returns without requestAnimationFrame while the dataset is
\* not loaded
scheduled_StopsWithoutData(path) == IF path \in {"threw", "noData"} THEN 0 ELSE 1

\* the requestAnimationFrame(render) calls render makes on a path: one before
\* each early return, one at the end, none when an exception ends the tick
scheduled(path) == IF path = "threw" THEN 0 ELSE 1

\* one call of render at playback time t: the path taken, the frame
\* resolved, the smoothers' new values, the calls made on each, the snapshot
\* fields read and the requestAnimationFrame calls made.  Reading a field of
\* a null frame is a TypeError that ends the tick.
tick(sk, data, t, values) ==
    LET none == [id \in DOMAIN values |-> 0]
        quiet(path, frame) ==
            [path |-> path, frame |-> frame, value |-> values, calls |-> none,
             reads |-> {}, raf |-> scheduled(path)]
    IN  IF dataMissing(data) THEN quiet("noData", NoResult)
        ELSE LET frame == getFrameAtTime(data.val.frames, t)
             IN  IF ~hasFrame(frame) THEN quiet("nullFrame", frame)
                 ELSE IF frame.kind # "object" THEN quiet("threw", frame)
                 ELSE LET calls == smootherCalls(sk)
                          st == invoke(calls, frame.val, smootherFactors(sk),
                                       [value |-> values, calls |-> none])
                      IN  [path |-> "frame", frame |-> frame,
                           value |-> st.value, calls |-> st.calls,
                           reads |-> {calls[i].field : i \in DOMAIN calls},
                           raf |-> scheduled("frame")]

\* what the fetch of the analysis artifact can deliver: a network error, a
\* body that is not JSON, the JSON value null, an object without `frames`,
\* an object with an empty `frames`, and a dataset of two frames
SketchFrames ==
    { [present |-> FALSE, items |-> <<>>],
      [present |-> TRUE, items |-> <<>>],
      [present |-> TRUE, items |-> <<MkFrame(0, 0), MkFrame(1, 1)>>] }

Bodies ==
    { [kind |-> "reject"], [kind |-> "notjson"], [kind |-> "json", val |-> Null] }
        \cup {[kind |-> "json", val |-> Obj([frames |-> d])] : d \in SketchFrames}

\* `Loaded ${analysisData.frames.length} frames ...` throws a TypeError when
\* analysisData is null or has no frames
logThrows(data) == data = Null \/ ~data.val.frames.present

\* audio.currentTime at a tick
TickTimes == {Num(0), Rat(1, 2), Num(2)}

ErrorText == "Error loading analysis data"

(***************************************************************************)
(* The components are checked one at a time: the specification of one      *)
(* component holds the variables of the others at these values.            *)
(***************************************************************************)
ResolverUnused ==
    /\ frames = [present |-> FALSE, items |-> <<>>]
    /\ qtime = Num(0)
    /\ low = 0
    /\ high = 0
    /\ pc = "idle"
    /\ result = NoResult

SmootherUnused ==
    /\ sFactor = Num(0)
    /\ sValue = Null
    /\ sTarget = Null
    /\ sRet = Null
    /\ sCalls = 0

ObjectUnused ==
    /\ oFactors = EmptyObject
    /\ oSmoothers = EmptyObject
    /\ oArg = EmptyObject
    /\ oResult = EmptyObject
    /\ oHist = EmptyObject
    /\ oSeenWith = EmptyObject
    /\ oCalls = 0

MathUnused ==
    /\ fName = "none"
    /\ fArgs = <<>>
    /\ fOut = Null

HeapUnused ==
    /\ hHeap = <<>>
    /\ hFrames = <<>>
    /\ hSnap = Null
    /\ hLoaded = <<>>
    /\ hWrites = 0

MachineUnused ==
    /\ currentState = "none"
    /\ lastEnergy = Num(0)
    /\ energyAccumulator = Num(0)
    /\ energyHistory = <<>>
    /\ onsetHistory = <<>>
    /\ numParticles = 0
    /\ stateBefore = "none"
    /\ deadFound = 0
    /\ mTicks = 0

BeatUnused ==
    /\ beats = [present |-> FALSE, items |-> <<>>]
    /\ bTime = Num(0)
    /\ anticipationGlow = Num(0)
    /\ lastBeatIndex = -1
    /\ flashed = {}
    /\ bTicks = 0

PoolUnused ==
    /\ particles = <<>>
    /\ spawnsLeft = 0
    /\ renderPc = "none"
    /\ objCount = 0
    /\ pTicks = 0

SketchUnused ==
    /\ sketch = "none"
    /\ body = Null
    /\ loadPc = "start"
    /\ analysisData = Null
    /\ loadingDisplay = "block"
    /\ loadingText = "Loading"
    /\ smValue = <<>>
    /\ smCalls = <<>>
    /\ tickPath = "none"
    /\ tickFrame = NoResult
    /\ ticks = 0
    /\ rafCount = 0
    /\ snapReads = {}

(***************************************************************************)
(* The resolver as a state machine: a call of getFrameAtTime, the          *)
(* iterations of getFrameIndex's loop, the return.                         *)
(***************************************************************************)
Init ==
    /\ frames \in Datasets
    /\ qtime = Num(0)
    /\ low = 0
    /\ high = 0
    /\ pc = "idle"
    /\ result = NoResult
    /\ SmootherUnused
    /\ ObjectUnused
    /\ MathUnused
    /\ SketchUnused
    /\ HeapUnused
    /\ MachineUnused
    /\ BeatUnused
    /\ PoolUnused

\* getFrameAtTime(frames, t) up to the start of getFrameIndex's loop.  An
\* empty array that got past the first check leaves getFrameIndex with 0:
\* low = 0 and high = -1 run no iteration.
Call(t) ==
    /\ pc \in {"idle", "done"}
    /\ qtime' = t
    /\ IF isEmpty(frames)
       THEN /\ result' = Null
            /\ pc' = "done"
            /\ UNCHANGED <<low, high>>
       ELSE /\ low' = 0
            /\ high' = Len(frames.items) - 1
            /\ result' = NoResult
            /\ pc' = "search"
    /\ UNCHANGED <<frames, smootherVars, objectVars, mathVars, sketchVars, heapVars, machineVars, beatVars, poolVars>>

\* one iteration of `while (low < high)`
SearchStep ==
    /\ pc = "search"
    /\ low < high
    /\ LET s == searchStep(frames.items, qtime, low, high)
       IN  low' = s[1] /\ high' = s[2]
    /\ UNCHANGED <<frames, qtime, pc, result,
                   smootherVars, objectVars, mathVars, sketchVars, heapVars, machineVars, beatVars, poolVars>>

\* a bug: the query time is written into the located frame before it is
\* copied (frame.time = time)
Return_WritesTime ==
    /\ pc = "search"
    /\ ~(low < high)
    /\ frames' = IF (low + 1) \in DOMAIN frames.items
                 THEN [frames EXCEPT !.items[low + 1].time = qtime]
                 ELSE frames
    /\ result' = snapshot(frames'.items, qtime, low)
    /\ pc' = "done"
    /\ UNCHANGED <<qtime, low, high,
                   smootherVars, objectVars, mathVars, sketchVars, heapVars, machineVars, beatVars, poolVars>>

\* `return low`, then the rest of getFrameAtTime with idx = low
Return ==
    /\ pc = "search"
    /\ ~(low < high)
    /\ result' = snapshot(frames.items, qtime, low)
    /\ pc' = "done"
    /\ UNCHANGED <<frames, qtime, low, high,
                   smootherVars, objectVars, mathVars, sketchVars, heapVars, machineVars, beatVars, poolVars>>

Next ==
    \/ \E t \in QueryTimes : Call(t)
    \/ SearchStep
    \/ Return

Spec == Init /\ [][Next]_vars

\* the stepwise call and the function agree
StepwiseAgrees == pc = "done" => result = getFrameAtTime(frames, qtime)

(***************************************************************************)
(* Vocabulary of the properties of the resolver.                           *)
(***************************************************************************)
ScalarFields == {"rms", "centroid", "contrast", "onset", "harmonic", "percussive"}

VectorFields == {"bands", "chroma"}

\* every feature value of the snapshot s equals that of the frame f
SameFeatures(s, f) ==
    /\ \A k \in ScalarFields \cup {"centroid_hz"} : REq(s[k], f[k])
    /\ \A k \in VectorFields :
          /\ DOMAIN s[k] = DOMAIN f[k]
          /\ \A i \in DOMAIN f[k] : REq(s[k][i], f[k][i])

\* x lies between a and b, inclusive
Between(x, a, b) ==
    \/ RLe(a, x) /\ RLe(x, b)
    \/ RLe(b, x) /\ RLe(x, a)

\* a call on a non-empty array has returned
Answered == pc = "done" /\ frames.present /\ Len(frames.items) > 0

\* t lies strictly between the times of frames i and i + 1 (1-based)
StrictlyInside(i) ==
    /\ i \in 1..(Len(frames.items) - 1)
    /\ RLt(frames.items[i].time, qtime)
    /\ RLt(qtime, frames.items[i + 1].time)

\* a.v + (b.v - a.v) * (t - a.time) / (b.time - a.time)
Linear(av, bv, a, b) ==
    RAdd(av, RDiv(RMul(RSub(bv, av), RSub(qtime, a.time)),
                  RSub(b.time, a.time)))

\* C1: whenever frames is missing or empty, getFrameAtTime returns null (and
\* does not throw), whatever the query time.
C1_EmptyGivesNull ==
    (pc = "done" /\ (~frames.present \/ Len(frames.items) = 0))
        => result = Null

C1_Witness ==
    /\ pc = "done"
    /\ frames.present
    /\ Len(frames.items) = 0
    /\ qtime = Num(-1)
    /\ result = Null

\* C2 as stated: for every index i, a query at exactly frames[i].time returns
\* the feature values of frames[i].
C2_ExactMatchEveryIndex ==
    Answered =>
        \A i \in 1..Len(frames.items) :
            REq(frames.items[i].time, qtime) =>
                /\ result.kind = "object"
                /\ SameFeatures(result.val, frames.items[i])

\* C2 as amended: a query at exactly frames[i].time returns the feature values
\* of frames[i] for every index i that is the last one holding that time.
C2_ExactMatchLastOfTime ==
    Answered =>
        \A i \in 1..Len(frames.items) :
            ( /\ REq(frames.items[i].time, qtime)
              /\ (i = Len(frames.items)
                    \/ ~REq(frames.items[i + 1].time, qtime)) ) =>
                /\ result.kind = "object"
                /\ SameFeatures(result.val, frames.items[i])

C2_Witness ==
    /\ Answered
    /\ Len(frames.items) = 3
    /\ REq(frames.items[1].time, qtime)
    /\ REq(frames.items[2].time, qtime)
    /\ RLt(qtime, frames.items[3].time)
    /\ frames.items[1] # frames.items[2]
    /\ result = Obj(frames.items[2])

\* C3: for every t at or after the last frame's time the snapshot holds the
\* last frame's feature values verbatim.
C3_AtOrPastEnd ==
    (Answered /\ RLe(frames.items[Len(frames.items)].time, qtime)) =>
        /\ result.kind = "object"
        /\ SameFeatures(result.val, frames.items[Len(frames.items)])

C3_Witness ==
    /\ Answered
    /\ Len(frames.items) = 3
    /\ RLt(frames.items[3].time, qtime)
    /\ frames.items[2].rms # frames.items[3].rms
    /\ result.kind = "object"
    /\ SameFeatures(result.val, frames.items[3])

\* C4: for every t before the first frame's time the snapshot holds the first
\* frame's feature values verbatim, for arrays of any length >= 1.
C4_ClampBeforeFirst ==
    (Answered /\ RLt(qtime, frames.items[1].time)) =>
        /\ result.kind = "object"
        /\ SameFeatures(result.val, frames.items[1])

\* C5: the time field of every snapshot returned equals the query time.
C5_TimeIsQueryTime ==
    (pc = "done" /\ result.kind = "object") => REq(result.val.time, qtime)

\* C6: for t strictly between frames[i].time and frames[i+1].time every scalar
\* field of the snapshot lies between those of frames[i] and frames[i+1].
C6_InterpolationBound ==
    Answered =>
        \A i \in 1..(Len(frames.items) - 1) :
            StrictlyInside(i) =>
                /\ result.kind = "object"
                /\ \A k \in ScalarFields :
                      Between(result.val[k],
                              frames.items[i][k], frames.items[i + 1][k])

C6_Witness ==
    /\ Answered
    /\ StrictlyInside(2)
    /\ frames.items[2].rms # frames.items[3].rms
    /\ result.kind = "object"
    /\ RLt(result.val.rms, Num(1))
    /\ RLt(Num(0), result.val.rms)

\* C7: for t strictly between two consecutive frames a and b every scalar and
\* every element of bands and chroma equals
\* a.v + (b.v - a.v) * (t - a.time) / (b.time - a.time); the frames
\* (time 0, rms 0), (time 1, rms 1) give rms 1/2 at t = 1/2.
C7_LinearInterpolation ==
    /\ Answered =>
         \A i \in 1..(Len(frames.items) - 1) :
             StrictlyInside(i) =>
                 LET a == frames.items[i]
                     b == frames.items[i + 1]
                 IN  /\ result.kind = "object"
                     /\ \A k \in ScalarFields :
                           REq(result.val[k], Linear(a[k], b[k], a, b))
                     /\ \A k \in VectorFields :
                           /\ DOMAIN result.val[k] = DOMAIN a[k]
                           /\ \A j \in DOMAIN a[k] :
                                 REq(result.val[k][j],
                                     Linear(a[k][j], b[k][j], a, b))
    /\ ( /\ pc = "done"
         /\ frames = [present |-> TRUE,
                      items |-> <<MkFrame(0, 0), MkFrame(1, 1)>>]
         /\ qtime = Rat(1, 2) )
           => (result.kind = "object" /\ result.val.rms = Rat(1, 2))

C7_Witness ==
    /\ pc = "done"
    /\ frames = [present |-> TRUE, items |-> <<MkFrame(0, 0), MkFrame(1, 1)>>]
    /\ qtime = Rat(1, 2)
    /\ result.kind = "object"
    /\ result.val.rms = Rat(1, 2)
    /\ result.val.bands[1] = Rat(3, 2)

\* the index getFrameIndex is to return: the greatest 0-based index whose
\* frame has time <= t, and 0 when there is none
LatestUpTo(items, t) ==
    LET S == {i \in 1..Len(items) : RLe(items[i].time, t)}
    IN  IF S = {} THEN 0
        ELSE (CHOOSE i \in S : \A j \in S : j <= i) - 1

\* C8: on a non-empty sorted array the binary search terminates (every
\* iteration strictly narrows a window that is never negative) and returns
\* the greatest index whose frame has time <= t, or 0 when there is none.
C8_BinarySearch ==
    /\ [][(pc = "search" /\ pc' = "search")
            => (0 <= high' - low' /\ high' - low' < high - low)]_vars
    /\ [](Answered => low = LatestUpTo(frames.items, qtime))

C8_Witness ==
    /\ Answered
    /\ Len(frames.items) = 3
    /\ frames.items[1].time = frames.items[2].time
    /\ RLe(frames.items[2].time, qtime)
    /\ RLt(qtime, frames.items[3].time)
    /\ low = 1

\* the call that has returned took the interpolation branch, with
\* frame = frames[low] and nextFrame = frames[low + 1]
Interpolated ==
    /\ Answered
    /\ (low + 2) \in DOMAIN frames.items
    /\ ~returnsAsIs(frames.items, qtime, low)

\* C22 as claimed: whenever the interpolation branch is reached, the
\* fraction (t - frame.time) / (nextFrame.time - frame.time) lies in [0, 1].
C22_FractionInUnitInterval ==
    Interpolated =>
        LET t == fraction(frames.items[low + 1], frames.items[low + 2], qtime)
        IN  RLe(Num(0), t) /\ RLe(t, Num(1))

\* C23 as claimed: whenever the interpolation branch is reached on a sorted
\* array, nextFrame.time is strictly greater than frame.time, so the
\* fraction is not a division by zero.
C23_NoDivisionByZero ==
    Interpolated =>
        RLt(frames.items[low + 1].time, frames.items[low + 2].time)

\* what the code does instead: both hold for every query time that is not
\* before the first frame
FractionFromFirstFrameOn ==
    (Interpolated /\ RLe(frames.items[1].time, qtime)) =>
        LET t == fraction(frames.items[low + 1], frames.items[low + 2], qtime)
        IN  /\ RLt(frames.items[low + 1].time, frames.items[low + 2].time)
            /\ RLt(Num(0), t) /\ RLt(t, Num(1))

\* C18: no step of getFrameIndex or getFrameAtTime changes the frames array
\* or a frame in it: after any sequence of calls with any query times the
\* dataset is what was loaded.
C18_DatasetReadOnly == [][frames' = frames]_vars

C18_Witness ==
    /\ Answered
    /\ Len(frames.items) = 3
    /\ StrictlyInside(2)
    /\ qtime = Rat(3, 2)
    /\ result.val.time = qtime

(***************************************************************************)
(* One smoother as a state machine: createSmoother(f), then calls of the   *)
(* function it returned.                                                   *)
(***************************************************************************)
InitSmoother ==
    /\ ResolverUnused
    /\ ObjectUnused
    /\ MathUnused
    /\ SketchUnused
    /\ HeapUnused
    /\ MachineUnused
    /\ BeatUnused
    /\ PoolUnused
    /\ \E f \in FactorArgs : sFactor = createSmoother(f)
    /\ sValue = Null
    /\ sTarget = Null
    /\ sRet = Null
    /\ sCalls = 0

\* smooth(target)
Smooth(target) ==
    /\ sCalls < MaxCalls
    /\ sValue' = smooth(sValue, target, sFactor)
    /\ sRet' = sValue'
    /\ sTarget' = target
    /\ sCalls' = sCalls + 1
    /\ UNCHANGED <<sFactor, resolverVars, objectVars, mathVars, sketchVars, heapVars, machineVars, beatVars, poolVars>>

NextSmoother == \E x \in Targets : Smooth(x)

SpecSmoother == InitSmoother /\ [][NextSmoother]_vars

\* C9: the first call smooth(x) on a fresh smoother returns exactly x, for
\* every factor and every x, 0 included.
C9_FirstCallVerbatim == sCalls = 1 => REq(sRet, sTarget)

C9_Witness ==
    /\ sCalls = 1
    /\ sFactor = Rat(1, 2)
    /\ sTarget = Num(2)
    /\ sRet = Num(2)

\* C10: every call after the first returns previous + (target - previous) * r,
\* previous being the value returned by the call just before and r the factor
\* fixed at construction.
C10_LaterCallsLerp ==
    /\ [][(sCalls >= 1 /\ sCalls' = sCalls + 1)
            => REq(sRet', RAdd(sRet, RMul(RSub(sTarget', sRet), sFactor)))]_vars
    /\ [][sFactor' = sFactor]_vars

C10_Witness ==
    /\ sCalls = 3
    /\ sFactor = Rat(1, 2)
    /\ sTarget = Num(0)
    /\ sRet = Rat(1, 4)

ConvFactors == {Rat(1, 4), Rat(1, 2), Rat(3, 4), Num(1)}

\* the distance from the target at which the output counts as arrived
Resolution == Rat(1, 2)

\* |a - b|
Dist(a, b) == RAbs(RSub(a, b))

InitConverge ==
    /\ ResolverUnused
    /\ ObjectUnused
    /\ MathUnused
    /\ SketchUnused
    /\ HeapUnused
    /\ MachineUnused
    /\ BeatUnused
    /\ PoolUnused
    /\ \E f \in ConvFactors : sFactor = createSmoother(f)
    /\ sValue = Null
    /\ sTarget = Null
    /\ sRet = Null
    /\ sCalls = 0

\* smooth(x): the first call with any value, the second with any target, the
\* later ones with the same target again
Feed(x) ==
    /\ sCalls >= 2 => (x = sTarget /\ RLt(Resolution, Dist(sValue, sTarget)))
    /\ sValue' = smooth(sValue, x, sFactor)
    /\ sRet' = sValue'
    /\ sTarget' = x
    /\ sCalls' = sCalls + 1
    /\ UNCHANGED <<sFactor, resolverVars, objectVars, mathVars, sketchVars, heapVars, machineVars, beatVars, poolVars>>

NextConverge == \E x \in Targets : Feed(x)

SpecConverge == InitConverge /\ [][NextConverge]_vars /\ WF_vars(NextConverge)

\* the output has moved from one side of x to the other
Crossed(before, after, x) ==
    \/ RLt(before, x) /\ RLt(x, after)
    \/ RLt(x, before) /\ RLt(after, x)

InitObject ==
    /\ ResolverUnused
    /\ SmootherUnused
    /\ MathUnused
    /\ SketchUnused
    /\ HeapUnused
    /\ MachineUnused
    /\ BeatUnused
    /\ PoolUnused
    /\ oFactors \in FactorMaps
    /\ oSmoothers = EmptyObject
    /\ oArg = EmptyObject
    /\ oResult = EmptyObject
    /\ oHist = [k \in Keys |-> <<>>]
    /\ oSeenWith = [k \in Keys |-> Null]
    /\ oCalls = 0

\* smooth(obj)
SmoothObject(obj) ==
    /\ oCalls < MaxObjCalls
    /\ LET st == smoothObject(oSmoothers, oFactors, obj)
       IN  /\ oSmoothers' = st.smoothers
           /\ oResult' = st.result
    /\ oArg' = obj
    /\ oHist' = [k \in Keys |-> IF k \in DOMAIN obj
                                THEN Append(oHist[k], obj[k]) ELSE oHist[k]]
    /\ oSeenWith' = [k \in Keys |->
                        IF k \in DOMAIN obj /\ oHist[k] = <<>>
                        THEN (IF k \in DOMAIN oFactors THEN oFactors[k]
                              ELSE Undefined)
                        ELSE oSeenWith[k]]
    /\ oCalls' = oCalls + 1
    /\ UNCHANGED <<oFactors, resolverVars, smootherVars, mathVars, sketchVars, heapVars, machineVars, beatVars, poolVars>>

\* the caller's factors[key] = f between two calls
SetFactor(key, f) ==
    /\ oCalls >= 1
    /\ oCalls < MaxObjCalls
    /\ ~(key \in DOMAIN oFactors /\ oFactors[key] = f)
    /\ oFactors' = Put(oFactors, key, f)
    /\ UNCHANGED <<oSmoothers, oArg, oResult, oHist, oSeenWith, oCalls,
                   resolverVars, smootherVars, mathVars, sketchVars, heapVars, machineVars, beatVars, poolVars>>

NextObject ==
    \/ \E obj \in Objects : SmoothObject(obj)
    \/ \E key \in Keys, f \in OverrideFactors : SetFactor(key, f)

SpecObject == InitObject /\ [][NextObject]_vars

\* the output of a smoother with factor f fed the values h, one per call
RECURSIVE Ema(_, _)
Ema(h, f) ==
    IF Len(h) = 0 THEN Null
    ELSE IF Len(h) = 1 THEN h[1]
    ELSE lerp(Ema(SubSeq(h, 1, Len(h) - 1), f), h[Len(h)], f)

Seen == {k \in Keys : oHist[k] # <<>>}

\* C14 as claimed: key k is smoothed with factors[k] whenever the mapping
\* held an override for k when k was first seen, and with 0.15 only when it
\* held none.
C14_OverrideAlwaysUsed ==
    \A k \in Seen \cap DOMAIN oSmoothers :
        oSmoothers[k].factor =
            (IF oSeenWith[k] = Undefined THEN defaultFactor ELSE oSeenWith[k])

\* the factor the code gives key k: the override it was first seen with,
\* unless that override is 0
FactorOf(k) ==
    IF oSeenWith[k] = Undefined \/ oSeenWith[k] = Num(0) THEN defaultFactor
    ELSE oSeenWith[k]

\* what the code does instead: key k gets the override it was first seen
\* with unless that override is 0, else 0.15, and keeps it on every later
\* call, whatever is written to the factors mapping afterwards
FactorsAsCoded ==
    /\ Seen = DOMAIN oSmoothers
    /\ \A k \in Seen \cap DOMAIN oSmoothers :
          /\ oSmoothers[k].factor = FactorOf(k)
          /\ oSmoothers[k].value = Ema(oHist[k], FactorOf(k))
    /\ \A k \in DOMAIN oArg \cap DOMAIN oResult :
          oResult[k] = Ema(oHist[k], FactorOf(k))

(***************************************************************************)
(* The stateless helpers: each step is one call, its arguments and its     *)
(* return value.                                                           *)
(***************************************************************************)
InitMath ==
    /\ ResolverUnused
    /\ SmootherUnused
    /\ ObjectUnused
    /\ SketchUnused
    /\ MathUnused
    /\ HeapUnused
    /\ MachineUnused
    /\ BeatUnused
    /\ PoolUnused

\* map(value, inMin, inMax, outMin, outMax)
CallMap(value, inMin, inMax, outMin, outMax) ==
    /\ fName' = "map"
    /\ fArgs' = <<value, inMin, inMax, outMin, outMax>>
    /\ fOut' = map(value, inMin, inMax, outMin, outMax)
    /\ UNCHANGED <<resolverVars, smootherVars, objectVars, sketchVars, heapVars, machineVars, beatVars, poolVars>>

\* power(value, p)
CallPower(value, p) ==
    /\ fName' = "power"
    /\ fArgs' = <<value, p>>
    /\ fOut' = power(value, p)
    /\ UNCHANGED <<resolverVars, smootherVars, objectVars, sketchVars, heapVars, machineVars, beatVars, poolVars>>

NextMath ==
    \/ \E value \in MathValues, inMin, inMax \in InEnds, outMin, outMax \in OutEnds :
            CallMap(value, inMin, inMax, outMin, outMax)
    \/ \E value \in MathValues, p \in Exponents : CallPower(value, p)

SpecMath == InitMath /\ [][NextMath]_vars

\* the arguments of the last call, by name
MapArgs ==
    [value |-> fArgs[1], inMin |-> fArgs[2], inMax |-> fArgs[3],
     outMin |-> fArgs[4], outMax |-> fArgs[5]]

\* x lies outside the closed interval with the ends a and b
Outside(x, a, b) == ~Between(x, a, b)

\* the facts C19 states about one call of map
MapFacts(a) ==
    /\ REq(a.value, a.inMin) => REq(fOut, a.outMin)
    /\ REq(a.value, a.inMax) => REq(fOut, a.outMax)
    /\ fArgs = <<Rat(1, 2), Num(0), Num(1), Num(0), Num(100)>> => fOut = Num(50)
    /\ fArgs = <<Num(5), Num(0), Num(10), Num(100), Num(200)>> => fOut = Num(150)
    /\ Outside(a.value, a.inMin, a.inMax) => Outside(fOut, a.outMin, a.outMax)

\* C19 as claimed: for all arguments map sends inMin to outMin and inMax to
\* outMax, gives the two example values, and takes a value outside
\* [inMin, inMax] to a result outside [outMin, outMax].
C19_MapAffineAlways == fName = "map" => MapFacts(MapArgs)

\* C19: when inMin # inMax, map(value, inMin, inMax, outMin, outMax) is
\* outMin + (value - inMin) * (outMax - outMin) / (inMax - inMin): it sends
\* inMin to outMin and inMax to outMax, map(0.5, 0, 1, 0, 100) = 50 and
\* map(5, 0, 10, 100, 200) = 150, and it never clamps: when also
\* outMin # outMax, a value outside [inMin, inMax] gives a result outside
\* [outMin, outMax].
C19_MapAffine ==
    (fName = "map" /\ MapArgs.inMin # MapArgs.inMax) =>
        LET a == MapArgs
        IN  /\ REq(fOut, RAdd(a.outMin,
                              RDiv(RMul(RSub(a.value, a.inMin),
                                        RSub(a.outMax, a.outMin)),
                                   RSub(a.inMax, a.inMin))))
            /\ a.outMin # a.outMax => MapFacts(a)
            /\ REq(a.value, a.inMin) => REq(fOut, a.outMin)
            /\ REq(a.value, a.inMax) => REq(fOut, a.outMax)

C19_Witness ==
    /\ fName = "map"
    /\ fArgs = <<Num(12), Num(0), Num(10), Num(100), Num(200)>>
    /\ fOut = Num(220)

\* C20: power(value, p) clamps value to [0, 1] before raising it to p:
\* power(0.5, 2) = 0.25, power(1.5, 2) = 1, power(v, p) = 0 for every v <= 0
\* and p > 0, and for every p > 0 the result lies in [0, 1].
C20_PowerClampsFirst ==
    fName = "power" =>
        LET v == fArgs[1]
            p == fArgs[2]
        IN  /\ fOut = RPow(clamp(v, Num(0), Num(1)), p.n)
            /\ fArgs = <<Rat(1, 2), Num(2)>> => fOut = Rat(1, 4)
            /\ fArgs = <<Rat(3, 2), Num(2)>> => fOut = Num(1)
            /\ (RLe(v, Num(0)) /\ RLt(Num(0), p)) => fOut = Num(0)
            /\ RLt(Num(0), p) => (RLe(Num(0), fOut) /\ RLe(fOut, Num(1)))

C20_Witness ==
    /\ fName = "power"
    /\ fArgs = <<Rat(3, 2), Num(2)>>
    /\ fOut = Num(1)

(***************************************************************************)
(* One sketch as a state machine.  The script ends with                    *)
(* `loadAnalysis(); render();`: loadAnalysis runs up to its first await,   *)
(* the first render runs before anything the fetch delivers, and from then *)
(* on ticks interleave with the two continuations of loadAnalysis.         *)
(***************************************************************************)
InitSketch ==
    /\ ResolverUnused
    /\ SmootherUnused
    /\ ObjectUnused
    /\ MathUnused
    /\ HeapUnused
    /\ MachineUnused
    /\ BeatUnused
    /\ PoolUnused
    /\ sketch \in Sketches
    /\ body \in Bodies
    /\ loadPc = "fetching"
    /\ analysisData = Null
    /\ loadingDisplay = "block"
    /\ loadingText = "Loading"
    /\ smValue = [id \in DOMAIN smootherFactors(sketch) |-> Null]
    /\ smCalls = [id \in DOMAIN smootherFactors(sketch) |-> 0]
    /\ tickPath = "none"
    /\ tickFrame = NoResult
    /\ ticks = 0
    /\ rafCount = 0
    /\ snapReads = {}

\* a call of render is due: the script's own call at its end, or the callback
\* of a requestAnimationFrame made by the tick before
renderPending == ticks = 0 \/ rafCount >= 1

\* render() with audio.currentTime = t: the script's own call of render, or
\* the callback a requestAnimationFrame of the tick before has scheduled
Tick(t) ==
    /\ ticks < MaxTicks
    /\ renderPending
    /\ LET r == tick(sketch, analysisData, t, smValue)
       IN  /\ tickPath' = r.path
           /\ tickFrame' = r.frame
           /\ smValue' = r.value
           /\ smCalls' = r.calls
           /\ snapReads' = r.reads
           /\ rafCount' = r.raf
    /\ ticks' = ticks + 1
    /\ UNCHANGED <<sketch, body, loadPc, analysisData, loadingDisplay,
                   loadingText, resolverVars, smootherVars, objectVars, mathVars, heapVars, machineVars, beatVars, poolVars>>

\* loadAnalysis after `await fetch(...)`: a rejection goes to the catch
\* block, otherwise response.json() is called and awaited
FetchSettles ==
    /\ loadPc = "fetching"
    /\ ticks >= 1
    /\ IF body.kind = "reject"
       THEN /\ loadingText' = ErrorText
            /\ loadPc' = "failed"
       ELSE /\ loadPc' = "parsing"
            /\ UNCHANGED loadingText
    /\ UNCHANGED <<sketch, body, analysisData, loadingDisplay, smValue, smCalls,
                   tickPath, tickFrame, ticks, rafCount, snapReads,
                   resolverVars, smootherVars, objectVars, mathVars, heapVars, machineVars, beatVars, poolVars>>

\* loadAnalysis after `await response.json()`: a rejection goes to the catch
\* block; otherwise analysisData is assigned, the loading element hidden and
\* the summary logged, and a TypeError of the log goes to the catch block
JsonSettles ==
    /\ loadPc = "parsing"
    /\ IF body.kind = "notjson"
       THEN /\ loadingText' = ErrorText
            /\ loadPc' = "failed"
            /\ UNCHANGED <<analysisData, loadingDisplay>>
       ELSE /\ analysisData' = body.val
            /\ loadingDisplay' = "none"
            /\ IF logThrows(body.val)
               THEN /\ loadingText' = ErrorText
                    /\ loadPc' = "failed"
               ELSE /\ loadPc' = "loaded"
                    /\ UNCHANGED loadingText
    /\ UNCHANGED <<sketch, body, smValue, smCalls,
                   tickPath, tickFrame, ticks, rafCount, snapReads,
                   resolverVars, smootherVars, objectVars, mathVars, heapVars, machineVars, beatVars, poolVars>>

NextSketch ==
    \/ \E t \in TickTimes : Tick(t)
    \/ FetchSettles
    \/ JsonSettles

SpecSketch == InitSketch /\ [][NextSketch]_vars

\* the last step was a render call
Ticked == ticks' = ticks + 1

\* the last tick had no frame to draw from
NoFrame == tickFrame \in {NoResult, Null}

\* C15: a tick that runs while the dataset is not loaded, or for which
\* getFrameAtTime returns null, reads no snapshot field, invokes no smoother
\* (every smoother's state is as before the tick) and does not throw.
C15_NoDataTickIsInert ==
    /\ []((ticks >= 1 /\ NoFrame) =>
            /\ tickPath \in {"noData", "nullFrame"}
            /\ snapReads = {}
            /\ \A id \in DOMAIN smCalls : smCalls[id] = 0
            /\ rafCount = 1)
    /\ [][(Ticked /\ NoFrame') => smValue' = smValue]_vars

C15_Witness ==
    /\ sketch = "waveform-terrain"
    /\ loadPc = "loaded"
    /\ analysisData # Null
    /\ analysisData.val.frames.items = <<>>
    /\ ticks = 3
    /\ tickPath = "nullFrame"
    /\ tickFrame = Null

\* C16 as claimed: every tick, from the first on, invokes every smoother of
\* the sketch exactly once.
C16_OncePerTick ==
    ticks >= 1 => \A id \in DOMAIN smCalls : smCalls[id] = 1

\* C16: every smoother the sketch creates at startup is invoked exactly once
\* on every tick that has a frame (its state becomes the smoothing of its
\* previous state with the value read from the frame), and not at all on a
\* tick without dataset or without frame; the first tick is always of the
\* second kind.  No tick invokes a smoother twice, and the set of smoothers
\* never changes.
C16_OncePerDataTick ==
    /\ [](/\ DOMAIN smValue = DOMAIN smootherFactors(sketch)
          /\ DOMAIN smCalls = DOMAIN smValue
          /\ (ticks >= 1 /\ ~NoFrame) =>
                \A id \in DOMAIN smCalls : smCalls[id] = 1 /\ smValue[id] # Null
          /\ (ticks >= 1 /\ NoFrame) => \A id \in DOMAIN smCalls : smCalls[id] = 0
          /\ ticks = 1 => NoFrame)
    /\ [][(Ticked /\ ~NoFrame') =>
            \A id \in DOMAIN smValue :
                \E call \in {smootherCalls(sketch)[i] :
                                i \in DOMAIN smootherCalls(sketch)} :
                    /\ call.smoother = id
                    /\ smValue'[id] = smooth(smValue[id],
                                             callArgument(tickFrame'.val, call),
                                             smootherFactors(sketch)[id])]_vars

C16_Witness ==
    /\ sketch = "baseline-circle"
    /\ ticks = 3
    /\ tickPath = "frame"
    /\ tickFrame.val.time = Rat(1, 2)
    /\ smCalls[<<"dominantPitch", 0>>] = 1
    /\ smValue[<<"rms", 0>>] = Rat(37, 40)

\* C17 as claimed: whenever loadAnalysis ends in its catch block, the loading
\* element is still visible and shows the error text, analysisData is still
\* null, and every tick from then on is a tick without data.
C17_FailureIsVisible ==
    loadPc = "failed" =>
        /\ loadingDisplay # "none"
        /\ loadingText = ErrorText
        /\ analysisData = Null

InitPitch ==
    /\ ResolverUnused
    /\ SmootherUnused
    /\ ObjectUnused
    /\ SketchUnused
    /\ MathUnused
    /\ HeapUnused
    /\ MachineUnused
    /\ BeatUnused
    /\ PoolUnused

\* getDominantPitch(chroma)
CallPitch(chroma) ==
    /\ fName' = "getDominantPitch"
    /\ fArgs' = <<chroma>>
    /\ fOut' = Num(getDominantPitch(chroma))
    /\ UNCHANGED <<resolverVars, smootherVars, objectVars, sketchVars, heapVars, machineVars, beatVars, poolVars>>

NextPitch == \E chroma \in ChromaVectors : CallPitch(chroma)

SpecPitch == InitPitch /\ [][NextPitch]_vars

\* C21: getDominantPitch(chroma) returns an index (counted from 0) whose
\* entry is a maximum of chroma, and of the indices holding the maximum the
\* lowest.
C21_FirstArgmax ==
    fName = "getDominantPitch" =>
        LET chroma == fArgs[1]
            i == fOut.n
        IN  /\ fOut.d = 1
            /\ i \in 0..(Len(chroma) - 1)
            /\ \A j \in 0..(Len(chroma) - 1) : RLe(chroma[j + 1], chroma[i + 1])
            /\ \A j \in 0..(i - 1) : RLt(chroma[j + 1], chroma[i + 1])

C21_Witness ==
    /\ fName = "getDominantPitch"
    /\ fArgs = << <<Rat(1, 2), Num(1), Num(1), Num(0)>> >>
    /\ fOut = Num(1)

(***************************************************************************)
(* A consumer of the resolver that writes to the snapshots it gets.        *)
(***************************************************************************)
InitHeap ==
    /\ ResolverUnused
    /\ SmootherUnused
    /\ ObjectUnused
    /\ MathUnused
    /\ SketchUnused
    /\ MachineUnused
    /\ BeatUnused
    /\ PoolUnused
    /\ \E s \in HeapDatasets :
          /\ hLoaded = s
          /\ hFrames = [i \in DOMAIN s |->
                          [s[i] EXCEPT !.bands = 2 * i - 1, !.chroma = 2 * i]]
          /\ hHeap = [a \in 1..(2 * Len(s) + 2) |->
                          IF a > 2 * Len(s) THEN <<>>
                          ELSE IF a % 2 = 1 THEN s[(a + 1) \div 2].bands
                          ELSE s[a \div 2].chroma]
    /\ hSnap = Null
    /\ hWrites = 0

\* const frame = getFrameAtTime(frames, t)
Resolve(t) ==
    /\ LET r == resolveOnHeap(hHeap, hFrames, t)
       IN  /\ hSnap' = r.snap
           /\ hHeap' = r.heap
    /\ UNCHANGED <<hFrames, hLoaded, hWrites,
                   resolverVars, smootherVars, objectVars, mathVars, sketchVars, machineVars, beatVars, poolVars>>

\* frame.<field> = Written, for a scalar field of the snapshot
WriteField(field) ==
    /\ hSnap # Null
    /\ hWrites < MaxWrites
    /\ hSnap' = Obj([hSnap.val EXCEPT ![field] = Written])
    /\ hWrites' = hWrites + 1
    /\ UNCHANGED <<hHeap, hFrames, hLoaded,
                   resolverVars, smootherVars, objectVars, mathVars, sketchVars, machineVars, beatVars, poolVars>>

\* frame.<field>[i] = Written, for an array field of the snapshot (i from 0)
WriteElement(field, i) ==
    /\ hSnap # Null
    /\ hWrites < MaxWrites
    /\ (i + 1) \in DOMAIN hHeap[hSnap.val[field]]
    /\ hHeap' = [hHeap EXCEPT ![hSnap.val[field]][i + 1] = Written]
    /\ hWrites' = hWrites + 1
    /\ UNCHANGED <<hFrames, hSnap, hLoaded,
                   resolverVars, smootherVars, objectVars, mathVars, sketchVars, machineVars, beatVars, poolVars>>

NextHeap ==
    \/ \E t \in QueryTimes : Resolve(t)
    \/ \E field \in ScalarFields \cup {"time"} : WriteField(field)
    \/ \E field \in VectorFields, i \in 0..(NumBands - 1) : WriteElement(field, i)

SpecHeap == InitHeap /\ [][NextHeap]_vars

\* C24 as claimed: whatever is written to a snapshot or to the elements of
\* its bands or chroma arrays, every frame of the dataset keeps the content
\* it was loaded with.
C24_SnapshotSharesNothing ==
    /\ DOMAIN hFrames = DOMAIN hLoaded
    /\ \A i \in DOMAIN hFrames : Deref(hHeap, hFrames[i]) = hLoaded[i]

\* what the code does instead: only a snapshot of the interpolation branch
\* has arrays of its own; the copy { ...frame } shares both arrays with the
\* frame it was made from
ArraysSharedWhenAsIs ==
    hSnap # Null =>
        \/ \E i \in DOMAIN hFrames :
              /\ hSnap.val.bands = hFrames[i].bands
              /\ hSnap.val.chroma = hFrames[i].chroma
        \/ /\ hSnap.val.bands = 2 * Len(hFrames) + 1
           /\ hSnap.val.chroma = 2 * Len(hFrames) + 2

(***************************************************************************)
(* The state-machine sketch: each step is a tick that has a frame.         *)
(***************************************************************************)
InitMachine ==
    /\ ResolverUnused
    /\ SmootherUnused
    /\ ObjectUnused
    /\ MathUnused
    /\ SketchUnused
    /\ HeapUnused
    /\ BeatUnused
    /\ PoolUnused
    /\ currentState = "AMBIENT"
    /\ lastEnergy = Num(0)
    /\ energyAccumulator = Num(0)
    /\ energyHistory = <<>>
    /\ onsetHistory = <<>>
    /\ numParticles = getParticleCountForState("AMBIENT")
    /\ stateBefore = "AMBIENT"
    /\ deadFound = 0
    /\ mTicks = 0

\* render's data path: analyzeAndTransition(rms, onset, bass), then the
\* particle loop, in which `dead` particles are found dead
MachineTick(rms, onset, dead) ==
    /\ mTicks < MaxMachineTicks
    /\ \E a \in {analyzeAndTransition(
                    [currentState |-> currentState, lastEnergy |-> lastEnergy,
                     energyAccumulator |-> energyAccumulator,
                     energyHistory |-> energyHistory,
                     onsetHistory |-> onsetHistory,
                     numParticles |-> numParticles], rms, onset)} :
           /\ currentState' = a.currentState
           /\ lastEnergy' = a.lastEnergy
           /\ energyAccumulator' = a.energyAccumulator
           /\ energyHistory' = a.energyHistory
           /\ onsetHistory' = a.onsetHistory
           /\ numParticles' =
                 afterParticleLoop(a.numParticles, dead,
                                   getParticleCountForState(a.currentState))
    /\ stateBefore' = currentState
    /\ deadFound' = dead
    /\ mTicks' = mTicks + 1
    /\ UNCHANGED <<resolverVars, smootherVars, objectVars, mathVars, sketchVars,
                   heapVars, beatVars, poolVars>>

NextMachine ==
    \E in \in MachineInputs, dead \in {0, 1, numParticles} :
        MachineTick(in.rms, in.onset, dead)

SpecMachine == InitMachine /\ [][NextMachine]_vars

\* the last step was a tick of the state-machine sketch
MachineTicked == mTicks' = mTicks + 1

\* the rms of the tick before was above 0.5 and this tick's is below 0.15
SuddenDrop == RLt(Rat(5, 10), lastEnergy) /\ RLt(lastEnergy', Rat(15, 100))

C28_ParticlesBounded ==
    /\ [](numParticles <= 200 /\ numParticles <= MAX_PARTICLES)
    /\ [][MachineTicked =>
            /\ numParticles' > numParticles =>
                  /\ currentState' # currentState
                  /\ numParticles' = getParticleCountForState(currentState')
            /\ numParticles' < numParticles =>
                  /\ deadFound' >= numParticles - numParticles'
                  /\ numParticles' >= getParticleCountForState(currentState')]_vars

C28_Witness ==
    /\ stateBefore = "INTENSE"
    /\ currentState = "BREAKDOWN"
    /\ deadFound = 200
    /\ numParticles = 10

(***************************************************************************)
(* The trail-echo sketch: each step is a tick that has a frame; the        *)
(* playback clock never runs backwards.                                    *)
(***************************************************************************)
InitBeat ==
    /\ ResolverUnused
    /\ SmootherUnused
    /\ ObjectUnused
    /\ MathUnused
    /\ SketchUnused
    /\ HeapUnused
    /\ MachineUnused
    /\ PoolUnused
    /\ beats \in BeatLists
    /\ bTime = Num(0)
    /\ anticipationGlow = Num(0)
    /\ lastBeatIndex = -1
    /\ flashed = {}
    /\ bTicks = 0

\* render's data path at currentTime: the beat anticipation block and the
\* decay of the glow
BeatTick(currentTime) ==
    /\ bTicks < MaxBeatTicks
    /\ RLe(bTime, currentTime)
    /\ \E b \in {anticipate(currentTime, beats,
                             [glow |-> anticipationGlow, last |-> lastBeatIndex,
                              flash |-> -1])} :
          /\ anticipationGlow' = RMul(b.glow, Rat(92, 100))
          /\ lastBeatIndex' = b.last
          /\ flashed' = IF b.flash = -1 THEN flashed ELSE flashed \cup {b.flash}
    /\ bTime' = currentTime
    /\ bTicks' = bTicks + 1
    /\ UNCHANGED <<beats, resolverVars, smootherVars, objectVars, mathVars,
                   sketchVars, heapVars, machineVars, poolVars>>

NextBeat == \E currentTime \in BeatTimes : BeatTick(currentTime)

SpecBeat == InitBeat /\ [][NextBeat]_vars

\* C29 as claimed: every beat the playback clock has reached or passed has
\* had its flash: a tick on which that beat was returned by getNextBeat with
\* no time left, the glow was set to 1 and lastBeatIndex to its index.
C29_EveryBeatFlashes ==
    bTicks >= 1 =>
        \A i \in 0..(Len(beats.items) - 1) :
            RLe(beats.items[i + 1], bTime) => i \in flashed

\* what the code does instead: getNextBeat only returns beats that lie
\* strictly ahead, so the time until the beat is positive on every tick, the
\* flash branch never runs and lastBeatIndex stays -1
FlashNeverRuns ==
    /\ flashed = {}
    /\ lastBeatIndex = -1
    /\ RLt(anticipationGlow, Num(1))

(***************************************************************************)
(* The particle-physics sketch: a tick with a frame is its spawnParticle   *)
(* calls, one step each (the continuous spawn loop, then spawnBurst's      *)
(* loop), followed by the update loop.                                     *)
(***************************************************************************)
InitPool ==
    /\ ResolverUnused
    /\ SmootherUnused
    /\ ObjectUnused
    /\ MathUnused
    /\ SketchUnused
    /\ HeapUnused
    /\ MachineUnused
    /\ BeatUnused
    /\ particles = <<>>
    /\ spawnsLeft = 0
    /\ renderPc = "idle"
    /\ objCount = 0
    /\ pTicks = 0

\* render reaches PARTICLE SPAWNING with `rate` passes of the spawn loop and
\* a burst of `burst` particles ahead
BeginSpawning(rate, burst) ==
    /\ renderPc = "idle"
    /\ pTicks < MaxPoolTicks
    /\ renderPc' = "spawning"
    /\ spawnsLeft' = rate + burst
    /\ pTicks' = pTicks + 1
    /\ UNCHANGED <<particles, objCount, resolverVars, smootherVars, objectVars,
                   mathVars, sketchVars, heapVars, machineVars, beatVars>>

\* one call of spawnParticle
SpawnParticle ==
    /\ renderPc = "spawning"
    /\ spawnsLeft > 0
    /\ \E r \in {spawnParticle(particles, objCount)} :
          /\ particles' = r.pool
          /\ objCount' = r.made
    /\ spawnsLeft' = spawnsLeft - 1
    /\ UNCHANGED <<renderPc, pTicks, resolverVars, smootherVars, objectVars,
                   mathVars, sketchVars, heapVars, machineVars, beatVars>>

\* UPDATE PARTICLES, to the end of render
UpdateParticles(gone) ==
    /\ renderPc = "spawning"
    /\ spawnsLeft = 0
    /\ particles' = updateParticles(particles, gone, 1)
    /\ renderPc' = "idle"
    /\ UNCHANGED <<spawnsLeft, objCount, pTicks, resolverVars, smootherVars,
                   objectVars, mathVars, sketchVars, heapVars, machineVars,
                   beatVars>>

NextPool ==
    \/ \E rate \in SpawnRates, burst \in BurstCounts : BeginSpawning(rate, burst)
    \/ SpawnParticle
    \/ \E gone \in Removals(Len(particles)) : UpdateParticles(gone)

SpecPool == InitPool /\ [][NextPool]_vars

\* the last step was a call of spawnParticle
Spawned == spawnsLeft' = spawnsLeft - 1

\* C30: the pool never holds more than its capacity (MAX_PARTICLES); a spawn
\* at capacity leaves the count unchanged: the oldest particle, at the front
\* of the array, is reset and moved to the back, the others move up one
\* place; a spawn below capacity appends a new particle.
C30_PoolBounded ==
    /\ [](Len(particles) <= PoolCapacity)
    /\ [][Spawned =>
            IF Len(particles) = PoolCapacity
            THEN /\ Len(particles') = Len(particles)
                 /\ particles'[Len(particles')] = [obj |-> particles[1].obj,
                                                  life |-> "full"]
                 /\ SubSeq(particles', 1, Len(particles') - 1) = Tail(particles)
                 /\ objCount' = objCount
            ELSE /\ particles' = Append(particles, [obj |-> objCount', life |-> "full"])
                 /\ objCount' = objCount + 1]_vars

C30_Witness ==
    /\ renderPc = "spawning"
    /\ pTicks = 2
    /\ Len(particles) = PoolCapacity
    /\ particles[1].life = "worn"
    /\ particles[PoolCapacity] = [obj |-> 1, life |-> "full"]
    /\ objCount = PoolCapacity

====
